---- MODULE Spec2Model ----
(***************************************************************************)
(* A model of lapin-futures' background task (futures/src/background.rs),  *)
(* its heartbeat Pulse (futures/src/pulse.rs), the BackgroundHandle, the   *)
(* Client's channel creation (futures/src/client.rs) and the two built-in  *)
(* commands (futures/src/commands).                                        *)
(*                                                                         *)
(* Background::poll is split at its four `match` statements (shutdown,     *)
(* pulse, commands, transport): other threads (a Client sending, the owner *)
(* of the BackgroundHandle dropping it, the timer) interleave between      *)
(* them.  The futures 0.1 primitives the code is written against are       *)
(* modelled by their behaviour: oneshot (a value, or cancellation, seen by *)
(* the receiver's poll), the bounded mpsc channel (a message is accepted   *)
(* from every sender that is not parked, the sender is parked when the     *)
(* count then exceeds the buffer, and the receiver unparks one sender per  *)
(* message it takes), sink::Send (start_send, then poll_complete) and the  *)
(* tokio-timer Interval (a deadline that advances by the period).          *)
(***************************************************************************)
EXTENDS Naturals, Sequences, FiniteSets

\* ------------------------------------------------------------- bounds
\* The buffer of the command queue: stands for mpsc::channel(1024)
\* (background.rs:46), scaled down so that a full queue is reachable.
QueueBuffer == 1
\* The interval of the Pulse, Duration::from_secs(60) (background.rs:47), in
\* the model's time unit of 30 seconds.
Period == 2
\* Simulated time runs from 0 to MaxTime.
MaxTime == 2
\* create_channel calls over a run.
MaxClientSends == 2
\* Channel ids the connection can allocate (its channel_max).
ChannelMax == 1

\* The Client handles (clones of one Client) that call create_channel.
Clients == {1, 2}
\* The sender the Pulse sends on (Pulse.chan, cloned for each send).
PulseChan == 0
Producers == {PulseChan} \cup Clients

VARIABLES
    spawned,      \* the Background future has been handed to an executor
    bgState,      \* Running | StoppedClean | StoppedError | Panicked
    bgError,      \* the ErrorKind the task ended with
    pc,           \* position of Background::poll inside the current turn
    notified,     \* the executor has been asked to poll the task
    dropped,      \* the Background value (and its receivers) has been dropped
    shutdown,     \* Background.shutdown, the oneshot: empty | sent | canceled
    shutdownReg,  \* the oneshot receiver holds the task to wake
    handle,       \* Background.handle is Some
    held,         \* BackgroundHandles held outside the task
    inner,        \* BackgroundHandle.0 is Some
    hstat,        \* history of handle() and of the handle's destructor
    queue,        \* the messages of the mpsc channel Background.commands
    parkedQ,      \* the channel's queue of parked senders
    isParked,     \* per sender in use: its SenderTask.is_parked
    recvUnparked, \* the channel's ReceiverTask.unparked
    recvReg,      \* the channel's ReceiverTask.task is Some
    task,         \* Pulse.task: none | unsent | sent
    item,         \* the Heartbeat held by the Pulse's unsent Send future
    chanSend,     \* per client: its create_channel send: none | sent; or
                  \* dropped, once the Client and its Channel are dropped
    deadline,     \* Pulse.interval: the next tick
    timerReg,     \* the interval's Delay holds the task to wake
    timer,        \* the timer instance: ok | dropped
    now,          \* simulated time
    conn,         \* transport.conn: channels, frame_queue, requests
    lastApply,    \* history: the last Command::execute and its outcome
    hist,         \* history: commands created, delivered, applied; attempts
    turnLog,      \* history: the steps of the current turn, in order
    sigAtStart    \* history: the handle had been destroyed when the turn began

vars == <<spawned, bgState, bgError, pc, notified, dropped, shutdown,
          shutdownReg, handle, held, inner, hstat, queue, parkedQ, isParked,
          recvUnparked, recvReg, task, item, chanSend, deadline, timerReg,
          timer, now, conn, lastApply, hist, turnLog, sigAtStart>>

bgVars == <<bgState, bgError, pc>>
handleVars == <<handle, held, inner>>
chanVars == <<queue, parkedQ, isParked, recvUnparked, recvReg>>
pulseVars == <<task, deadline, timerReg>>
connVars == <<conn, lastApply>>

NoCommand == [id |-> <<0, 0>>, kind |-> "None"]
NoApply == [id |-> <<0, 0>>, kind |-> "None", result |-> "None", request_id |-> 0,
            opened |-> FALSE]

\* ------------------------------------------------------- construction
\* Background::new followed by Client::connect: the handle sits in the task,
\* the queue is empty, the interval's first tick is due at once, no Send is
\* pending.
Init ==
    /\ spawned = FALSE
    /\ bgState = "Running" /\ bgError = "None" /\ pc = "idle"
    /\ notified = FALSE /\ dropped = FALSE
    /\ shutdown = "empty" /\ shutdownReg = FALSE
    /\ handle = TRUE /\ held = 0 /\ inner = TRUE
    /\ hstat = [returned |-> 0, last |-> "none",
                sends |-> 0, log |-> "none", panicked |-> FALSE,
                rxGone |-> FALSE]
    /\ queue = <<>> /\ parkedQ = <<>>
    /\ isParked = [p \in Producers |-> FALSE]
    /\ recvUnparked = FALSE /\ recvReg = FALSE
    /\ task = "none"
    /\ item = NoCommand
    /\ chanSend = [c \in Clients |-> "none"]
    /\ deadline = 0 /\ timerReg = FALSE /\ timer = "ok" /\ now = 0
    /\ conn = [channels |-> 0, frame_queue |-> <<>>, requests |-> 0]
    /\ lastApply = NoApply
    /\ hist = [delivered |-> <<>>, applied |-> <<>>, attempts |-> 0,
               enqueued |-> 0, sends |-> 0]
    /\ turnLog = <<>>
    /\ sigAtStart = FALSE

\* ------------------------------------------------ BackgroundHandle
\* pub fn handle(&mut self) -> Option<BackgroundHandle> { self.handle.take() }
\* The result: TRUE for Some(handle), FALSE for None.
HandleTake == handle

\* A handle() that clones the handle out and leaves it in the task.
CallHandleNoTake ==
    /\ ~spawned
    /\ hstat.returned < 2
    /\ held' = IF HandleTake THEN held + 1 ELSE held
    /\ hstat' = [hstat EXCEPT !.returned = IF HandleTake THEN @ + 1 ELSE @,
                              !.last = IF HandleTake THEN "Some" ELSE "None"]
    /\ UNCHANGED <<spawned, bgVars, notified, dropped, shutdown, shutdownReg,
                   handle, inner, chanVars, pulseVars, item, chanSend, timer,
                   now, connVars, hist, turnLog, sigAtStart>>

\* Background::handle, callable while the caller still owns the task, that
\* is before it is spawned.
CallHandle ==
    /\ ~spawned
    /\ handle' = FALSE
    /\ held' = IF HandleTake THEN held + 1 ELSE held
    /\ hstat' = [hstat EXCEPT !.returned = IF HandleTake THEN @ + 1 ELSE @,
                              !.last = IF HandleTake THEN "Some" ELSE "None"]
    /\ UNCHANGED <<spawned, bgVars, notified, dropped, shutdown, shutdownReg,
                   inner, chanVars, pulseVars, item, chanSend, timer, now,
                   connVars, hist, turnLog, sigAtStart>>

\* A send that reports success whether or not the receiver is there.
OneshotSendBlind(rxGone) == "Ok"

\* oneshot::Sender::send: Err when the receiver has been dropped.
OneshotSend(rxGone) == IF rxGone THEN "Err" ELSE "Ok"

\* A destructor that releases the sender without sending.
HandleDropSilent(rxGone) ==
    IF ~inner
    THEN /\ hstat' = [hstat EXCEPT !.panicked = TRUE]
         /\ UNCHANGED <<inner, shutdown, notified>>
    ELSE /\ inner' = FALSE
         /\ shutdown' = IF rxGone THEN shutdown ELSE "canceled"
         /\ notified' = (notified \/ (~rxGone /\ shutdownReg))
         /\ hstat' = [hstat EXCEPT
                !.sends = @ + 1,
                !.log = IF rxGone THEN "warn" ELSE "debug",
                !.rxGone = rxGone]

\* impl Drop for BackgroundHandle, run with the receiver gone or not:
\* take the sender out (a None is the `expect` panic), send, log.
HandleDrop(rxGone) ==
    IF ~inner
    THEN /\ hstat' = [hstat EXCEPT !.panicked = TRUE]
         /\ UNCHANGED <<inner, shutdown, notified>>
    ELSE /\ inner' = FALSE
         /\ shutdown' = IF OneshotSend(rxGone) = "Ok" THEN "sent" ELSE shutdown
         /\ notified' = (notified \/ (OneshotSend(rxGone) = "Ok" /\ shutdownReg))
         /\ hstat' = [hstat EXCEPT
                !.sends = @ + 1,
                !.log = IF OneshotSend(rxGone) = "Ok" THEN "debug" ELSE "warn",
                !.rxGone = rxGone]

\* The owner of the handle drops it (or calls stop(), which consumes it).
DropHandle ==
    /\ held > 0
    /\ held' = held - 1
    /\ HandleDrop(dropped)
    /\ UNCHANGED <<spawned, bgVars, dropped, shutdownReg, handle, chanVars,
                   pulseVars, item, chanSend, timer, now, connVars, hist,
                   turnLog, sigAtStart>>

\* The caller hands the task to an executor, which polls it a first time.
Spawn ==
    /\ ~spawned
    /\ spawned' = TRUE
    /\ notified' = TRUE
    /\ UNCHANGED <<bgVars, dropped, shutdown, shutdownReg, handleVars, hstat,
                   chanVars, pulseVars, item, chanSend, timer, now, connVars,
                   hist, turnLog, sigAtStart>>

\* --------------------------------------------------- the mpsc channel
Chan == [queue |-> queue, parkedQ |-> parkedQ, isParked |-> isParked,
         recvUnparked |-> recvUnparked, recvReg |-> recvReg]

SetChan(ch) ==
    /\ queue' = ch.queue
    /\ parkedQ' = ch.parkedQ
    /\ isParked' = ch.isParked
    /\ recvUnparked' = ch.recvUnparked
    /\ recvReg' = ch.recvReg

\* A channel whose senders never park.
ParkSelfNever(n) == FALSE

\* Sender::do_send on a channel with `n` messages: the message count is
\* incremented, and the sender parks when it then exceeds the buffer.
ParkSelf(n) == n + 1 > QueueBuffer

\* A Send that parks its sender on a full queue and loses the message.
SendPollDropWhenFull(st, p, cmd, ch, closed) ==
    IF st = "unsent"
    THEN IF closed
         THEN [state |-> "none", ch |-> ch, wake |-> FALSE, pushed |-> FALSE,
               err |-> TRUE]
         ELSE LET full == ParkSelf(Len(ch.queue))
              IN [state |-> IF full THEN "sent" ELSE "none",
                  ch |-> [queue |-> IF full THEN ch.queue
                                    ELSE Append(ch.queue, cmd),
                          parkedQ |-> IF full THEN Append(ch.parkedQ, p)
                                      ELSE ch.parkedQ,
                          isParked |-> IF full
                                       THEN [ch.isParked EXCEPT ![p] = TRUE]
                                       ELSE ch.isParked,
                          recvUnparked |-> TRUE,
                          recvReg |-> ch.recvUnparked /\ ch.recvReg],
                  wake |-> ~ch.recvUnparked /\ ch.recvReg,
                  pushed |-> ~full, err |-> FALSE]
    ELSE [state |-> IF ~closed /\ ch.isParked[p] THEN "sent" ELSE "none",
          ch |-> ch, wake |-> FALSE, pushed |-> FALSE, err |-> FALSE]

\* A poll of the sink::Send future `chan.clone().send(cmd)` of producer p.
\* unsent: start_send on the fresh clone, which is not parked, so the
\* message is pushed (do_send), the sender parks itself if the count exceeds
\* the buffer and the receiver is signalled; then poll_complete, which is
\* not ready while the sender is parked.  sent: poll_complete again.
\* closed: the receiver is gone, start_send fails.
SendPoll(st, p, cmd, ch, closed) ==
    IF st = "unsent"
    THEN IF closed
         THEN [state |-> "none", ch |-> ch, wake |-> FALSE, pushed |-> FALSE,
               err |-> TRUE]
         ELSE LET full == ParkSelf(Len(ch.queue))
              IN [state |-> IF full THEN "sent" ELSE "none",
                  ch |-> [queue |-> Append(ch.queue, cmd),
                          parkedQ |-> IF full THEN Append(ch.parkedQ, p)
                                      ELSE ch.parkedQ,
                          isParked |-> IF full
                                       THEN [ch.isParked EXCEPT ![p] = TRUE]
                                       ELSE ch.isParked,
                          recvUnparked |-> TRUE,
                          recvReg |-> ch.recvUnparked /\ ch.recvReg],
                  wake |-> ~ch.recvUnparked /\ ch.recvReg,
                  pushed |-> TRUE, err |-> FALSE]
    ELSE [state |-> IF ~closed /\ ch.isParked[p] THEN "sent" ELSE "none",
          ch |-> ch, wake |-> FALSE, pushed |-> FALSE, err |-> FALSE]

\* A receiver that takes a message and unparks no sender.
ReceiverPollNoUnpark(ch) ==
    IF ch.queue # <<>>
    THEN [msg |-> Head(ch.queue),
          ch |-> [ch EXCEPT !.queue = Tail(ch.queue)],
          unparked |-> {}]
    ELSE [msg |-> NoCommand,
          ch |-> [ch EXCEPT !.recvUnparked = FALSE, !.recvReg = TRUE],
          unparked |-> {}]

\* A receiver that takes two messages where it should take one.
ReceiverPollTwo(ch) ==
    IF ch.queue # <<>>
    THEN [msg |-> Head(ch.queue),
          ch |-> [ch EXCEPT
                    !.queue = Tail(Tail(ch.queue \o <<NoCommand>>)),
                    !.parkedQ = IF ch.parkedQ # <<>> THEN Tail(ch.parkedQ)
                                ELSE ch.parkedQ,
                    !.isParked = IF ch.parkedQ # <<>>
                                 THEN [ch.isParked EXCEPT
                                         ![Head(ch.parkedQ)] = FALSE]
                                 ELSE ch.isParked],
          unparked |-> IF ch.parkedQ # <<>> THEN {Head(ch.parkedQ)} ELSE {}]
    ELSE [msg |-> NoCommand,
          ch |-> [ch EXCEPT !.recvUnparked = FALSE, !.recvReg = TRUE],
          unparked |-> {}]

\* A receiver that takes the newest message instead of the oldest.
ReceiverPollLifo(ch) ==
    IF ch.queue # <<>>
    THEN [msg |-> ch.queue[Len(ch.queue)],
          ch |-> [ch EXCEPT
                    !.queue = SubSeq(ch.queue, 1, Len(ch.queue) - 1),
                    !.parkedQ = IF ch.parkedQ # <<>> THEN Tail(ch.parkedQ)
                                ELSE ch.parkedQ,
                    !.isParked = IF ch.parkedQ # <<>>
                                 THEN [ch.isParked EXCEPT
                                         ![Head(ch.parkedQ)] = FALSE]
                                 ELSE ch.isParked],
          unparked |-> IF ch.parkedQ # <<>> THEN {Head(ch.parkedQ)} ELSE {}]
    ELSE [msg |-> NoCommand,
          ch |-> [ch EXCEPT !.recvUnparked = FALSE, !.recvReg = TRUE],
          unparked |-> {}]

\* A count of the senders that leaves out the two the task keeps.
NumSendersClientsOnly ==
    Cardinality({c \in Clients : chanSend[c] # "dropped"})
        + Cardinality({c \in Clients : chanSend[c] = "sent"})
        + (IF task # "none" THEN 1 ELSE 0)

\* The live mpsc::Sender handles of the command queue: Background.sender and
\* Pulse.chan (both owned by the task), the clone inside the Pulse's pending
\* Send, the clone each live Client holds (Client.channel) and the clone
\* inside each pending create_channel Send.
NumSenders ==
    (IF dropped THEN 0 ELSE 2)
        + Cardinality({c \in Clients : chanSend[c] # "dropped"})
        + Cardinality({c \in Clients : chanSend[c] = "sent"})
        + (IF task # "none" THEN 1 ELSE 0)

\* Receiver::poll answers Ready(None) when the queue is empty and closed,
\* that is when every sender has been dropped.
QueueClosed == queue = <<>> /\ NumSenders = 0

\* Receiver::poll: the oldest message, and one parked sender unparked; on an
\* empty queue the receiver parks (try_park) and reports not ready.
ReceiverPoll(ch) ==
    IF ch.queue # <<>>
    THEN [msg |-> Head(ch.queue),
          ch |-> [ch EXCEPT
                    !.queue = Tail(ch.queue),
                    !.parkedQ = IF ch.parkedQ # <<>> THEN Tail(ch.parkedQ)
                                ELSE ch.parkedQ,
                    !.isParked = IF ch.parkedQ # <<>>
                                 THEN [ch.isParked EXCEPT
                                         ![Head(ch.parkedQ)] = FALSE]
                                 ELSE ch.isParked],
          unparked |-> IF ch.parkedQ # <<>> THEN {Head(ch.parkedQ)} ELSE {}]
    ELSE [msg |-> NoCommand,
          ch |-> [ch EXCEPT !.recvUnparked = FALSE, !.recvReg = TRUE],
          unparked |-> {}]

\* ------------------------------------------------------------ Pulse
\* An interval that ticks at every poll, whatever its deadline.
IntervalPollEager(atCapacity) ==
    CASE timer = "dropped" -> "ErrShutdown"
      [] atCapacity -> "ErrAtCapacity"
      [] OTHER -> "Tick"

\* Interval::poll as Pulse::poll reads it: an error of the timer (it is at
\* capacity, or it has been dropped), a tick when the deadline has passed,
\* not ready otherwise.
IntervalPoll(atCapacity) ==
    CASE timer = "dropped" -> "ErrShutdown"
      [] atCapacity -> "ErrAtCapacity"
      [] now >= deadline -> "Tick"
      [] OTHER -> "NotReady"

\* A Pulse that goes on to its interval whatever its pending Send answers.
PulsePollAlways(atCapacity) ==
    LET sp == IF task # "none"
              THEN SendPoll(task, PulseChan, item, Chan, dropped)
              ELSE [state |-> "none", ch |-> Chan, wake |-> FALSE,
                    pushed |-> FALSE, err |-> FALSE]
        base == [task |-> sp.state, ch |-> sp.ch, deadline |-> deadline,
                 timerReg |-> timerReg, fault |-> FALSE, res |-> "NotReady",
                 wake |-> sp.wake, attempt |-> FALSE, pushed |-> sp.pushed,
                 interval |-> FALSE]
    IN  CASE IntervalPoll(atCapacity) = "ErrShutdown" ->
               [base EXCEPT !.res = "TimerDropped", !.interval = TRUE]
          [] IntervalPoll(atCapacity) = "ErrAtCapacity" ->
               [base EXCEPT !.wake = TRUE, !.fault = TRUE, !.interval = TRUE]
          [] IntervalPoll(atCapacity) = "Tick" ->
               [base EXCEPT !.task = "unsent", !.deadline = deadline + Period,
                            !.attempt = TRUE, !.interval = TRUE]
          [] OTHER ->
               [base EXCEPT !.timerReg = TRUE, !.interval = TRUE]

\* A Pulse that puts the Heartbeat on the queue in the poll that sees the tick.
PulsePollEagerSend(atCapacity) ==
    LET sp == IF task # "none"
              THEN SendPoll(task, PulseChan, item, Chan, dropped)
              ELSE [state |-> "none", ch |-> Chan, wake |-> FALSE,
                    pushed |-> FALSE, err |-> FALSE]
        base == [task |-> sp.state, ch |-> sp.ch, deadline |-> deadline,
                 timerReg |-> timerReg, fault |-> FALSE, res |-> "NotReady",
                 wake |-> sp.wake, attempt |-> FALSE, pushed |-> sp.pushed,
                 interval |-> FALSE]
        hb == [id |-> <<PulseChan, hist.attempts + 1>>, kind |-> "Heartbeat"]
    IN  IF sp.state # "none"
        THEN base
        ELSE CASE IntervalPoll(atCapacity) = "ErrShutdown" ->
                    [base EXCEPT !.res = "TimerDropped", !.interval = TRUE]
               [] IntervalPoll(atCapacity) = "ErrAtCapacity" ->
                    [base EXCEPT !.wake = TRUE, !.fault = TRUE,
                                 !.interval = TRUE]
               [] IntervalPoll(atCapacity) = "Tick" ->
                    [base EXCEPT !.ch.queue = Append(@, hb),
                                 !.deadline = deadline + Period,
                                 !.attempt = TRUE, !.interval = TRUE]
               [] OTHER ->
                    [base EXCEPT !.timerReg = TRUE, !.interval = TRUE]

\* A Pulse that fails when its Send fails.
PulsePollSendFatal(atCapacity) ==
    LET sp == IF task # "none"
              THEN SendPoll(task, PulseChan, item, Chan, dropped)
              ELSE [state |-> "none", ch |-> Chan, wake |-> FALSE,
                    pushed |-> FALSE, err |-> FALSE]
        base == [task |-> sp.state, ch |-> sp.ch, deadline |-> deadline,
                 timerReg |-> timerReg, fault |-> FALSE, res |-> "NotReady",
                 wake |-> sp.wake, attempt |-> FALSE, pushed |-> sp.pushed,
                 interval |-> FALSE]
    IN  IF sp.state # "none"
        THEN base
        ELSE IF sp.err
        THEN [base EXCEPT !.res = "TimerDropped"]
        ELSE CASE IntervalPoll(atCapacity) = "ErrShutdown" ->
                    [base EXCEPT !.res = "TimerDropped", !.interval = TRUE]
               [] IntervalPoll(atCapacity) = "ErrAtCapacity" ->
                    [base EXCEPT !.wake = TRUE, !.fault = TRUE,
                                 !.interval = TRUE]
               [] IntervalPoll(atCapacity) = "Tick" ->
                    [base EXCEPT !.task = "unsent",
                                 !.deadline = deadline + Period,
                                 !.attempt = TRUE, !.interval = TRUE]
               [] OTHER ->
                    [base EXCEPT !.timerReg = TRUE, !.interval = TRUE]

\* impl Future for Pulse, fn poll: the pending Send first, and only when
\* there is none, or it has completed or failed, the interval.
PulsePoll(atCapacity) ==
    LET sp == IF task # "none"
              THEN SendPoll(task, PulseChan, item, Chan, dropped)
              ELSE [state |-> "none", ch |-> Chan, wake |-> FALSE,
                    pushed |-> FALSE, err |-> FALSE]
        base == [task |-> sp.state, ch |-> sp.ch, deadline |-> deadline,
                 timerReg |-> timerReg, fault |-> FALSE, res |-> "NotReady",
                 wake |-> sp.wake, attempt |-> FALSE, pushed |-> sp.pushed,
                 interval |-> FALSE]
    IN  IF sp.state # "none"
        THEN base
        ELSE CASE IntervalPoll(atCapacity) = "ErrShutdown" ->
                    [base EXCEPT !.res = "TimerDropped", !.interval = TRUE]
               [] IntervalPoll(atCapacity) = "ErrAtCapacity" ->
                    [base EXCEPT !.wake = TRUE, !.fault = TRUE,
                                 !.interval = TRUE]
               [] IntervalPoll(atCapacity) = "Tick" ->
                    [base EXCEPT !.task = "unsent",
                                 !.deadline = deadline + Period,
                                 !.attempt = TRUE, !.interval = TRUE]
               [] OTHER ->
                    [base EXCEPT !.timerReg = TRUE, !.interval = TRUE]

\* --------------------------------------------------------- commands
\* An execute that does nothing once the shutdown signal has been sent.
ExecuteUnlessShutdown(cmd, c, openOk) ==
    IF shutdown = "sent"
    THEN [conn |-> c, result |-> "Ok", request_id |-> 0, opened |-> FALSE]
    ELSE IF cmd.kind = "Heartbeat"
    THEN [conn |-> [c EXCEPT !.frame_queue = Append(@, "Heartbeat")],
          result |-> "Ok", request_id |-> 0, opened |-> FALSE]
    ELSE IF c.channels >= ChannelMax
    THEN [conn |-> c, result |-> "ChannelLimitReached", request_id |-> 0,
          opened |-> FALSE]
    ELSE IF openOk
    THEN [conn |-> [channels |-> c.channels + 1,
                    frame_queue |-> Append(c.frame_queue, "ChannelOpen"),
                    requests |-> c.requests + 1],
          result |-> "Ok", request_id |-> c.requests + 1, opened |-> TRUE]
    ELSE [conn |-> [c EXCEPT !.channels = @ + 1],
          result |-> "ProtocolError", request_id |-> 0, opened |-> TRUE]

\* An Open that issues channel-open, and keeps its request id, when the
\* connection has no channel id left.
ExecuteOpenAnyway(cmd, c, openOk) ==
    IF cmd.kind = "Heartbeat"
    THEN [conn |-> [c EXCEPT !.frame_queue = Append(@, "Heartbeat")],
          result |-> "Ok", request_id |-> 0, opened |-> FALSE]
    ELSE IF c.channels >= ChannelMax
    THEN [conn |-> [c EXCEPT !.frame_queue = Append(@, "ChannelOpen"),
                             !.requests = @ + 1],
          result |-> "ChannelLimitReached", request_id |-> c.requests + 1,
          opened |-> TRUE]
    ELSE IF openOk
    THEN [conn |-> [channels |-> c.channels + 1,
                    frame_queue |-> Append(c.frame_queue, "ChannelOpen"),
                    requests |-> c.requests + 1],
          result |-> "Ok", request_id |-> c.requests + 1, opened |-> TRUE]
    ELSE [conn |-> [c EXCEPT !.channels = @ + 1],
          result |-> "ProtocolError", request_id |-> 0, opened |-> TRUE]

\* A Heartbeat that puts its frame at the head of the frame queue.
ExecuteHeartbeatFirst(cmd, c, openOk) ==
    IF cmd.kind = "Heartbeat"
    THEN [conn |-> [c EXCEPT !.frame_queue = <<"Heartbeat">> \o @],
          result |-> "Ok", request_id |-> 0, opened |-> FALSE]
    ELSE IF c.channels >= ChannelMax
    THEN [conn |-> c, result |-> "ChannelLimitReached", request_id |-> 0,
          opened |-> FALSE]
    ELSE IF openOk
    THEN [conn |-> [channels |-> c.channels + 1,
                    frame_queue |-> Append(c.frame_queue, "ChannelOpen"),
                    requests |-> c.requests + 1],
          result |-> "Ok", request_id |-> c.requests + 1, opened |-> TRUE]
    ELSE [conn |-> [c EXCEPT !.channels = @ + 1],
          result |-> "ProtocolError", request_id |-> 0, opened |-> TRUE]

\* Connection::is_finished on the request id a command holds (0: none):
\* None for no request, else whether the server's reply has arrived.
IsFinished(request_id, replied) ==
    IF request_id = 0 THEN "None"
    ELSE IF replied THEN "SomeTrue" ELSE "SomeFalse"

\* Command::has_finished: true for a Heartbeat; for an Open,
\* conn.is_finished(self.request_id).unwrap_or(false).
HasFinished(kind, request_id, replied) ==
    IF kind = "Heartbeat" THEN TRUE
    ELSE IsFinished(request_id, replied) = "SomeTrue"

\* Command::execute of Heartbeat and of Open on the connection c; openOk is
\* the outcome of conn.channel_open.
Execute(cmd, c, openOk) ==
    IF cmd.kind = "Heartbeat"
    THEN [conn |-> [c EXCEPT !.frame_queue = Append(@, "Heartbeat")],
          result |-> "Ok", request_id |-> 0, opened |-> FALSE]
    ELSE IF c.channels >= ChannelMax
    THEN [conn |-> c, result |-> "ChannelLimitReached", request_id |-> 0,
          opened |-> FALSE]
    ELSE IF openOk
    THEN [conn |-> [channels |-> c.channels + 1,
                    frame_queue |-> Append(c.frame_queue, "ChannelOpen"),
                    requests |-> c.requests + 1],
          result |-> "Ok", request_id |-> c.requests + 1, opened |-> TRUE]
    ELSE [conn |-> [c EXCEPT !.channels = @ + 1],
          result |-> "ProtocolError", request_id |-> 0, opened |-> TRUE]

\* ------------------------------------------------ Background::poll
\* The executor polls the task after a notification.
StartTurn ==
    /\ spawned /\ bgState = "Running" /\ pc = "idle" /\ notified
    /\ pc' = "shutdown"
    /\ notified' = FALSE
    /\ turnLog' = <<>>
    /\ sigAtStart' = (hstat.sends > 0)
    /\ UNCHANGED <<spawned, bgState, bgError, dropped, shutdown, shutdownReg,
                   handleVars, hstat, chanVars, pulseVars, item, chanSend,
                   timer, now, connVars, hist>>

\* A shutdown check that never sees the signal.
ShutdownPollDeaf == IF shutdown = "canceled" THEN "Err" ELSE "NotReady"

\* oneshot::Receiver::poll, as `match self.shutdown.poll()` reads it.
ShutdownPoll ==
    CASE shutdown = "sent" -> "Ready"
      [] shutdown = "canceled" -> "Err"
      [] OTHER -> "NotReady"

\* match self.shutdown.poll()
ShutdownStep ==
    /\ pc = "shutdown"
    /\ turnLog' = Append(turnLog, "shutdown")
    /\ CASE ShutdownPoll = "Ready" ->
              /\ bgState' = "StoppedClean" /\ pc' = "done"
              /\ UNCHANGED <<bgError, shutdownReg>>
         [] ShutdownPoll = "Err" ->
              /\ bgState' = "StoppedError" /\ bgError' = "HandleDropped"
              /\ pc' = "done"
              /\ UNCHANGED shutdownReg
         [] OTHER ->
              /\ shutdownReg' = TRUE /\ pc' = "pulse"
              /\ UNCHANGED <<bgState, bgError>>
    /\ UNCHANGED <<spawned, notified, dropped, shutdown, handleVars, hstat,
                   chanVars, pulseVars, item, chanSend, timer, now, connVars,
                   hist, sigAtStart>>

\* match self.pulse.poll(); `faults` holds the answers the timer may give to
\* "are you at capacity".
PulseStep(faults) ==
    /\ pc = "pulse"
    /\ turnLog' = Append(turnLog, "pulse")
    /\ \E atCapacity \in faults :
       LET r == PulsePoll(atCapacity)
           hb == [id |-> <<PulseChan, hist.attempts + 1>>, kind |-> "Heartbeat"]
       IN /\ task' = r.task
          /\ SetChan(r.ch)
          /\ deadline' = r.deadline
          /\ timerReg' = r.timerReg
          /\ notified' = (notified \/ r.wake)
          /\ item' = IF r.attempt THEN hb ELSE item
          /\ hist' = [hist EXCEPT
                 !.attempts = IF r.attempt THEN @ + 1 ELSE @,
                 !.enqueued = IF r.pushed THEN @ + 1 ELSE @,
                 !.delivered = IF r.pushed THEN Append(@, item.id)
                               ELSE @]
          /\ CASE r.res = "TimerDropped" ->
                    /\ bgState' = "StoppedError" /\ bgError' = "TimerDropped"
                    /\ pc' = "done"
               [] r.res = "Ready" ->
                    /\ bgState' = "Panicked" /\ bgError' = "Unreachable"
                    /\ pc' = "done"
               [] OTHER ->
                    /\ pc' = "commands" /\ UNCHANGED <<bgState, bgError>>
    /\ UNCHANGED <<spawned, dropped, shutdown, shutdownReg, handleVars, hstat,
                   chanSend, timer, now, connVars, sigAtStart>>

\* match self.commands.poll(): at most one command is taken and executed;
\* `unwrap` on a failed execute panics, and so does `unreachable!()` on a
\* closed queue.
CommandsStep ==
    /\ pc = "commands"
    /\ LET r == ReceiverPoll(Chan)
       IN /\ SetChan(r.ch)
          /\ notified' = (notified \/ PulseChan \in r.unparked)
          /\ IF QueueClosed
             THEN /\ bgState' = "Panicked" /\ bgError' = "Unreachable"
                  /\ pc' = "done"
                  /\ turnLog' = Append(turnLog, "commands")
                  /\ UNCHANGED <<connVars, hist>>
             ELSE IF r.msg = NoCommand
             THEN /\ pc' = "transport"
                  /\ turnLog' = Append(turnLog, "commands")
                  /\ UNCHANGED <<bgState, bgError, connVars, hist>>
             ELSE \E openOk \in BOOLEAN :
                    LET e == Execute(r.msg, conn, openOk)
                    IN /\ conn' = e.conn
                       /\ lastApply' = [id |-> r.msg.id, kind |-> r.msg.kind,
                                        result |-> e.result,
                                        request_id |-> e.request_id,
                                        opened |-> e.opened]
                       /\ hist' = [hist EXCEPT
                                     !.applied = Append(@, r.msg.id)]
                       /\ turnLog' = turnLog \o <<"commands", "apply">>
                       /\ IF e.result = "Ok"
                          THEN /\ pc' = "transport"
                               /\ UNCHANGED <<bgState, bgError>>
                          ELSE /\ bgState' = "Panicked"
                               /\ bgError' = e.result
                               /\ pc' = "done"
    /\ UNCHANGED <<spawned, dropped, shutdown, shutdownReg, handleVars, hstat,
                   pulseVars, item, chanSend, timer, now, sigAtStart>>

\* AMQPTransport::poll as `match self.transport.poll()` reads it: what the
\* transport does with the socket and the queued frames is left out, and
\* conn.frame_queue keeps every frame the commands have queued.
TransportPoll == {"NotReady", "Ready", "Err"}

\* match self.transport.poll(), then Ok(Async::NotReady).  The histories of
\* the turn (turnLog, lastApply, sigAtStart) are kept while the turn runs and
\* in a terminal state, and cleared when the turn ends not ready.
TransportStep ==
    /\ pc = "transport"
    /\ \E r \in TransportPoll :
         CASE r = "Ready" ->
                /\ bgState' = "StoppedClean" /\ pc' = "done"
                /\ turnLog' = Append(turnLog, "transport")
                /\ UNCHANGED <<bgError, lastApply, sigAtStart>>
           [] r = "Err" ->
                /\ bgState' = "StoppedError" /\ bgError' = "Transport"
                /\ pc' = "done"
                /\ turnLog' = Append(turnLog, "transport")
                /\ UNCHANGED <<lastApply, sigAtStart>>
           [] OTHER ->
                /\ pc' = "idle" /\ UNCHANGED <<bgState, bgError>>
                /\ turnLog' = <<>> /\ lastApply' = NoApply
                /\ sigAtStart' = FALSE
    /\ UNCHANGED <<spawned, notified, dropped, shutdown, shutdownReg,
                   handleVars, hstat, chanVars, pulseVars, item, chanSend,
                   timer, now, conn, hist>>

\* The executor drops the task once it has terminated.  The fields go in
\* declaration order: the shutdown receiver first, then the handle if it was
\* never taken (its destructor runs, the receiver already gone), then the
\* command receiver (its messages are discarded and every parked sender is
\* released) and the Pulse with its pending Send.
DropBackground ==
    /\ spawned /\ bgState # "Running" /\ ~dropped
    /\ dropped' = TRUE
    /\ handle' = FALSE
    /\ IF handle
       THEN HandleDrop(TRUE)
       ELSE UNCHANGED <<inner, shutdown, notified, hstat>>
    /\ queue' = <<>> /\ parkedQ' = <<>>
    /\ isParked' = [p \in Producers |-> FALSE]
    /\ recvUnparked' = FALSE /\ recvReg' = FALSE /\ shutdownReg' = FALSE
    /\ task' = "none" /\ timerReg' = FALSE
    /\ item' = NoCommand
    /\ UNCHANGED <<spawned, bgVars, held, deadline, chanSend, timer, now,
                   connVars, hist, turnLog, sigAtStart>>

\* ------------------------------------------------------------ Client
\* Channel::create(sender): it sends an Open command on the sender it is
\* given.
ChannelCreate(id) == [id |-> id, kind |-> "Open"]

\* Client::create_channel: Channel::create(self.channel.clone()), and the
\* first poll of the Send it makes: the command is pushed at once, the clone
\* being a sender that has never parked.
ClientCreateChannel(c) ==
    /\ spawned /\ bgState = "Running"
    /\ chanSend[c] = "none"
    /\ hist.sends < MaxClientSends
    /\ LET cmd == ChannelCreate(<<c, hist.sends + 1>>)
           r == SendPoll("unsent", c, cmd, Chan, dropped)
       IN /\ chanSend' = [chanSend EXCEPT ![c] = r.state]
          /\ SetChan(r.ch)
          /\ notified' = (notified \/ r.wake)
          /\ hist' = [hist EXCEPT !.sends = @ + 1,
                                  !.delivered = Append(@, cmd.id)]
    /\ UNCHANGED <<spawned, bgVars, dropped, shutdown, shutdownReg,
                   handleVars, hstat, pulseVars, item, timer, now, connVars,
                   turnLog, sigAtStart>>

\* The caller's task polls the Send again once its sender is unparked.
ClientSendPoll(c) ==
    /\ chanSend[c] = "sent"
    /\ LET r == SendPoll("sent", c, NoCommand, Chan, dropped)
       IN /\ r.state = "none"
          /\ chanSend' = [chanSend EXCEPT ![c] = r.state]
    /\ UNCHANGED <<spawned, bgVars, notified, dropped, shutdown, shutdownReg,
                   handleVars, hstat, chanVars, pulseVars, item, timer, now,
                   connVars, hist, turnLog, sigAtStart>>

\* The callers drop every Client handle and every Channel made from them,
\* none having a create_channel in flight.
DropClients ==
    /\ spawned /\ bgState = "Running"
    /\ \A c \in Clients : chanSend[c] = "none"
    /\ chanSend' = [c \in Clients |-> "dropped"]
    /\ UNCHANGED <<spawned, bgVars, notified, dropped, shutdown, shutdownReg,
                   handleVars, hstat, chanVars, pulseVars, item, timer, now,
                   connVars, hist, turnLog, sigAtStart>>

\* ------------------------------------------------------- environment
\* Time passes; a registered interval wakes the task at its deadline.
Tick ==
    /\ spawned /\ bgState = "Running"
    /\ now < MaxTime
    /\ now' = now + 1
    /\ notified' = (notified \/ (timerReg /\ now + 1 >= deadline))
    /\ timerReg' = (timerReg /\ ~(now + 1 >= deadline))
    /\ UNCHANGED <<spawned, bgVars, dropped, shutdown, shutdownReg,
                   handleVars, hstat, chanVars, task, deadline, item,
                   chanSend, timer, connVars, hist, turnLog, sigAtStart>>

\* The timer instance is dropped; its timeouts fire with an error.
TimerShutdown ==
    /\ spawned /\ bgState = "Running"
    /\ timer = "ok"
    /\ timer' = "dropped"
    /\ notified' = (notified \/ timerReg)
    /\ timerReg' = FALSE
    /\ UNCHANGED <<spawned, bgVars, dropped, shutdown, shutdownReg,
                   handleVars, hstat, chanVars, task, deadline, item,
                   chanSend, now, connVars, hist, turnLog, sigAtStart>>

\* The socket becomes readable or writable: the transport's task is woken.
SocketReady ==
    /\ spawned /\ bgState = "Running" /\ ~notified
    /\ notified' = TRUE
    /\ UNCHANGED <<spawned, bgVars, dropped, shutdown, shutdownReg,
                   handleVars, hstat, chanVars, pulseVars, item, chanSend,
                   timer, now, connVars, hist, turnLog, sigAtStart>>

BackgroundPoll ==
    StartTurn \/ ShutdownStep \/ PulseStep(BOOLEAN) \/ CommandsStep \/ TransportStep

Next ==
    \/ CallHandle
    \/ Spawn
    \/ DropHandle
    \/ StartTurn
    \/ ShutdownStep
    \/ PulseStep(BOOLEAN)
    \/ CommandsStep
    \/ TransportStep
    \/ DropBackground
    \/ \E c \in Clients : ClientCreateChannel(c)
    \/ \E c \in Clients : ClientSendPoll(c)
    \/ DropClients
    \/ Tick
    \/ TimerShutdown
    \/ SocketReady

Spec == Init /\ [][Next]_vars

\* Fair scheduling of the task: the executor polls it whenever it has been
\* notified, its poll runs to the end of the turn, and the socket goes on
\* waking it; the timer is never at capacity.
BackgroundPollFair ==
    StartTurn \/ ShutdownStep \/ PulseStep({FALSE}) \/ CommandsStep
        \/ TransportStep

NextFair ==
    \/ CallHandle
    \/ Spawn
    \/ DropHandle
    \/ BackgroundPollFair
    \/ DropBackground
    \/ \E c \in Clients : ClientCreateChannel(c)
    \/ \E c \in Clients : ClientSendPoll(c)
    \/ DropClients
    \/ Tick
    \/ TimerShutdown
    \/ SocketReady

FairSpec ==
    /\ Init /\ [][NextFair]_vars
    /\ WF_vars(Spawn)
    /\ WF_vars(BackgroundPollFair)
    /\ WF_vars(SocketReady)

\* The executor alone is fair: it polls the task whenever it has been
\* notified and the poll runs to the end of its turn.  The clients, the timer
\* and the socket may stay idle for ever.
PollFairSpec ==
    /\ Init /\ [][Next]_vars
    /\ WF_vars(Spawn)
    /\ WF_vars(BackgroundPoll)

\* ------------------------------------------ the Pulse on its own
\* The Pulse polled directly on a channel whose receiver the caller holds,
\* as in test_pulse_sending_message_at_configured_interval: the caller polls
\* the Pulse, polls or drops the receiver and advances the mocked timer.
PulseTestInit ==
    /\ spawned = TRUE
    /\ bgState = "Running" /\ bgError = "None" /\ pc = "pulse"
    /\ notified = FALSE /\ dropped = FALSE
    /\ shutdown = "empty" /\ shutdownReg = FALSE
    /\ handle = FALSE /\ held = 0 /\ inner = TRUE
    /\ hstat = [returned |-> 0, last |-> "none",
                sends |-> 0, log |-> "none", panicked |-> FALSE,
                rxGone |-> FALSE]
    /\ queue = <<>> /\ parkedQ = <<>>
    /\ isParked = [p \in Producers |-> FALSE]
    /\ recvUnparked = FALSE /\ recvReg = FALSE
    /\ task = "none"
    /\ item = NoCommand
    /\ chanSend = [c \in Clients |-> "dropped"]
    /\ deadline = 0 /\ timerReg = FALSE /\ timer = "ok" /\ now = 0
    /\ conn = [channels |-> 0, frame_queue |-> <<>>, requests |-> 0]
    /\ lastApply = NoApply
    /\ hist = [delivered |-> <<>>, applied |-> <<>>, attempts |-> 0,
               enqueued |-> 0, sends |-> 0]
    /\ turnLog = <<>>
    /\ sigAtStart = FALSE

\* assert_not_ready!(pulse), once more.
PulseTestAgain ==
    /\ pc = "commands" /\ bgState = "Running"
    /\ pc' = "pulse"
    /\ notified' = FALSE
    /\ turnLog' = <<>>
    /\ UNCHANGED <<spawned, bgState, bgError, dropped, shutdown, shutdownReg,
                   handleVars, hstat, chanVars, pulseVars, item, chanSend,
                   timer, now, connVars, hist, sigAtStart>>

\* assert_not_ready!(rx) and assert_ready_eq!(rx, ..): the caller polls the
\* receiver between two polls of the Pulse.
PulseTestRxPoll ==
    /\ pc = "commands" /\ ~dropped
    /\ LET r == ReceiverPoll(Chan)
       IN /\ SetChan(r.ch)
          /\ notified' = (notified \/ PulseChan \in r.unparked)
          /\ hist' = [hist EXCEPT !.applied = IF r.msg = NoCommand THEN @
                                              ELSE Append(@, r.msg.id)]
    /\ UNCHANGED <<spawned, bgVars, dropped, shutdown, shutdownReg,
                   handleVars, hstat, pulseVars, item, chanSend, timer, now,
                   connVars, turnLog, sigAtStart>>

\* The caller drops the receiver: the channel is closed, its messages are
\* discarded and the parked senders are released.  The Pulse lives on.
PulseTestRxDrop ==
    /\ pc = "commands" /\ ~dropped
    /\ dropped' = TRUE
    /\ queue' = <<>> /\ parkedQ' = <<>>
    /\ isParked' = [p \in Producers |-> FALSE]
    /\ recvUnparked' = FALSE /\ recvReg' = FALSE
    /\ notified' = (notified \/ isParked[PulseChan])
    /\ UNCHANGED <<spawned, bgVars, shutdown, shutdownReg, handleVars, hstat,
                   pulseVars, item, chanSend, timer, now, connVars, hist,
                   turnLog, sigAtStart>>

PulseTestNext ==
    \/ PulseStep(BOOLEAN)
    \/ PulseTestAgain
    \/ PulseTestRxPoll
    \/ PulseTestRxDrop
    \/ Tick
    \/ TimerShutdown

PulseTestSpec == PulseTestInit /\ [][PulseTestNext]_vars

\* ---------------------------------------------------------- claims
IsPrefix(a, b) == Len(a) <= Len(b) /\ \A i \in 1..Len(a) : a[i] = b[i]
NoDuplicates(a) == \A i, j \in 1..Len(a) : a[i] = a[j] => i = j
QueueIds == [i \in 1..Len(queue) |-> queue[i].id]
BooleanToNat(b) == IF b THEN 1 ELSE 0

\* C1: the commands applied so far are, in order and each once, the first
\* commands the queue was given (whoever sent them), and while the task owns
\* the queue what it holds is exactly the rest, in the order of delivery.
C1_AppliedInDeliveryOrder ==
    /\ IsPrefix(hist.applied, hist.delivered)
    /\ NoDuplicates(hist.applied)
    /\ ~dropped => hist.delivered = hist.applied \o QueueIds

\* Three commands have been applied, one of each producer (the Pulse and
\* the two clients), a client's command ahead of the Pulse's.
C1_Witness ==
    /\ Len(hist.applied) = 3
    /\ {hist.applied[i][1] : i \in 1..3} = Producers
    /\ hist.applied[1][1] # PulseChan

\* C2: a turn that begins after the BackgroundHandle was destroyed ends at
\* its shutdown check, in the clean terminal state, with no command applied
\* and no transport I/O; and once the task has terminated nothing is applied
\* any more, so what the queue held is never applied.
C2_ShutdownStopsNextTurn ==
    /\ [](sigAtStart =>
            /\ pc \in {"shutdown", "done"}
            /\ pc = "done" => bgState = "StoppedClean"
                              /\ turnLog = <<"shutdown">>)
    /\ [][bgState # "Running" =>
            /\ hist.applied' = hist.applied
            /\ turnLog' = turnLog
            /\ conn' = conn
            /\ bgState' = bgState]_vars

\* The task stopped on the signal with two commands queued and unapplied.
C2_Witness ==
    /\ sigAtStart /\ bgState = "StoppedClean"
    /\ Len(queue) >= 2

\* C3 (as claimed): after an apply that failed the task is still Running.
C3_FailedApplyKeepsRunning ==
    lastApply.result \in {"ChannelLimitReached", "ProtocolError"}
        => bgState = "Running"

\* C4: the first handle() returns the handle and every later one none: once
\* handle() has been called exactly one handle has been returned, and at
\* most one handle (in the task or outside) is alive.
C4_HandleTakenOnce ==
    /\ hstat.last = "none" => hstat.returned = 0 /\ (handle \/ dropped)
    /\ hstat.last # "none" => hstat.returned = 1 /\ ~handle
    /\ BooleanToNat(handle) + held <= 1

\* A second handle() has answered None while the first handle is alive.
C4_Witness == hstat.last = "None" /\ held = 1

\* C5: the one handle is in the task, held, or destroyed with exactly one
\* send and no panic; a send that found the receiver gone is logged as a
\* warning and changes nothing of the task, one that found it is logged at
\* debug level and leaves the signal where every later shutdown check sees
\* it, with the idle task woken.
C5_DropSendsOnce ==
    /\ BooleanToNat(handle) + held + hstat.sends = 1
    /\ ~hstat.panicked
    /\ hstat.log = "none" <=> hstat.sends = 0
    /\ hstat.log = "warn" <=> hstat.sends = 1 /\ hstat.rxGone
    /\ hstat.log = "warn" => shutdown = "empty" /\ bgError # "HandleDropped"
    /\ hstat.log = "debug" =>
          /\ shutdown = "sent" /\ ShutdownPoll = "Ready"
          /\ spawned /\ bgState = "Running" /\ pc = "idle" => notified

\* The handle was destroyed after the task had terminated and been dropped.
C5_Witness ==
    /\ hstat.log = "warn" /\ hstat.sends = 1 /\ dropped
    /\ hstat.last = "Some"

\* C6: one enqueue attempt per tick of the interval.  The interval's deadline
\* is always the number of attempts times the period (the first is due at
\* time 0 and none is skipped), there are never more attempts than ticks
\* have elapsed, every attempt enqueues exactly one heartbeat, and once the
\* Pulse is idle before its deadline the heartbeats enqueued are exactly the
\* ticks elapsed.  An attempt is made only by a poll at or after the
\* deadline, one at a time, and a poll that finds the tick due makes it.
C6_OneAttemptPerTick ==
    /\ [](/\ deadline = hist.attempts * Period
          /\ hist.attempts <= (now \div Period) + 1
          /\ hist.enqueued <= hist.attempts
          /\ hist.attempts <= hist.enqueued + 1
          /\ ~dropped => (task = "unsent" <=> hist.attempts = hist.enqueued + 1)
          /\ (~dropped /\ task = "none" /\ now < deadline)
                => hist.enqueued = (now \div Period) + 1)
    /\ [][/\ hist.attempts' # hist.attempts =>
                /\ now >= deadline
                /\ hist.attempts' = hist.attempts + 1
                /\ task' = "unsent"
          /\ (pc = "pulse" /\ pc' = "commands" /\ task = "none"
                /\ now >= deadline /\ ~notified')
                => hist.attempts' = hist.attempts + 1]_vars

\* With no client traffic at all, the heartbeats of both ticks (time 0 and
\* time Period) have been enqueued and the Pulse is idle.
C6_Witness ==
    /\ hist.sends = 0 /\ hist.enqueued = 2 /\ task = "none"
    /\ now >= Period /\ now < deadline

HeartbeatsApplied ==
    Cardinality({i \in 1..Len(hist.applied) : hist.applied[i][1] = PulseChan})
MaxBeats == (MaxTime \div Period) + 1

ParkedSenders == {p \in Producers : isParked[p]}

\* C8 (as claimed): the queue never holds more than its buffer.
C8_QueueAtMostBuffer == Len(queue) <= QueueBuffer

\* C8 (amended): the queue holds at most the buffer plus one command per
\* parked sender; a sender is parked exactly for each command beyond the
\* buffer, its Send is suspended, and its command has been delivered.
C8_QueueAtMostBufferPlusParked ==
    /\ Len(queue) <= QueueBuffer + Cardinality(ParkedSenders)
    /\ Len(parkedQ) = Cardinality(ParkedSenders)
    /\ {parkedQ[i] : i \in 1..Len(parkedQ)} = ParkedSenders
    /\ Len(queue) > QueueBuffer => Len(parkedQ) = Len(queue) - QueueBuffer
    /\ Len(queue) <= QueueBuffer => parkedQ = <<>>
    /\ isParked[PulseChan] => task = "sent"
    /\ \A c \in Clients : isParked[c] => chanSend[c] = "sent"
    /\ \A p \in ParkedSenders :
         \E i \in 1..Len(hist.delivered) : hist.delivered[i][1] = p

\* Two commands beyond the buffer are queued, their senders parked.
C8_Witness ==
    /\ Len(queue) = QueueBuffer + 2
    /\ Cardinality(ParkedSenders) = 2

Last(a) == a[Len(a)]

\* C9 (as claimed): the task leaves Running only by the shutdown signal or
\* the transport's completion (clean), or with TimerDropped, Transport or
\* HandleDropped; a turn ended by TimerDropped applied nothing and drove no
\* transport I/O.
C9_ExitWays ==
    bgState # "Running" =>
        \/ /\ bgState = "StoppedClean" /\ bgError = "None"
           /\ \/ turnLog = <<"shutdown">> /\ shutdown = "sent"
              \/ Last(turnLog) = "transport"
        \/ /\ bgState = "StoppedError" /\ bgError = "TimerDropped"
           /\ turnLog = <<"shutdown", "pulse">>
        \/ /\ bgState = "StoppedError" /\ bgError = "Transport"
           /\ Last(turnLog) = "transport"
        \/ /\ bgState = "StoppedError" /\ bgError = "HandleDropped"
           /\ turnLog = <<"shutdown">>

TurnOrders ==
    {<<"shutdown", "pulse", "commands", "transport">>,
     <<"shutdown", "pulse", "commands", "apply", "transport">>}

\* C10: the steps of a turn are always a prefix of shutdown, pulse, commands
\* (with at most one apply), transport, and match the position of the poll;
\* the step that applies a command takes the head of the queue and leaves
\* the rest as it was.
C10_FixedOrderOnePerTurn ==
    /\ [](/\ \E o \in TurnOrders : IsPrefix(turnLog, o)
          /\ pc = "shutdown" => turnLog = <<>>
          /\ pc = "pulse" => turnLog = <<"shutdown">>
          /\ pc = "commands" => turnLog = <<"shutdown", "pulse">>
          /\ pc = "transport" => Len(turnLog) >= 3
                                 /\ turnLog[3] = "commands")
    /\ [][hist.applied' # hist.applied =>
            /\ pc = "commands" /\ queue # <<>>
            /\ hist.applied' = Append(hist.applied, Head(queue).id)
            /\ queue' = Tail(queue)
            /\ Last(turnLog') = "apply"]_vars

\* One command of three that were ready has been applied in this turn; the
\* other two are still queued.
C10_Witness ==
    /\ pc = "transport" /\ Last(turnLog) = "apply"
    /\ Len(queue) = 2

\* The pending Send of the Pulse answers not ready at its next poll: it is
\* about to park its sender on a full queue, or its sender is still parked.
SendPending ==
    \/ task = "unsent" /\ ParkSelf(Len(queue))
    \/ task = "sent" /\ isParked[PulseChan]

\* C11: the Pulse has at most one enqueue attempt outstanding.  A poll of
\* the Pulse whose pending Send is not ready reports not ready (the turn goes
\* on to the commands) and keeps the Send, and the interval is not polled:
\* its deadline and registration are untouched, the timer's errors are not
\* seen (no termination, no wake other than the receiver's), and no
\* Heartbeat is constructed.  A Heartbeat is constructed only by a poll that
\* found the slot empty or emptied it.
C11_OnePendingAttempt ==
    /\ [](hist.attempts <= hist.enqueued + 1)
    /\ [][(pc = "pulse" /\ pc' # "pulse" /\ SendPending) =>
            /\ pc' = "commands" /\ bgState' = bgState
            /\ task' = "sent"
            /\ deadline' = deadline /\ timerReg' = timerReg
            /\ hist.attempts' = hist.attempts /\ item' = item
            /\ notified' = (notified \/ (task = "unsent" /\ ~recvUnparked
                                            /\ recvReg))]_vars
    /\ [][hist.attempts' # hist.attempts =>
            /\ pc = "pulse" /\ ~SendPending
            /\ task' = "unsent"]_vars

\* A poll of the Pulse has just found its Send still pending while the next
\* tick was due, and the timer already dropped.
C11_Witness ==
    /\ pc = "commands" /\ task = "sent" /\ isParked[PulseChan]
    /\ now >= deadline /\ timer = "dropped"

\* C12 (as claimed): with a fair executor and nothing else (no new command,
\* no tick, an idle socket), every command delivered to the queue is applied
\* unless the task terminates first, and a task left idle with commands in
\* its queue is polled again.
C12_DeliveredEventuallyApplied ==
    /\ \A k \in 1..(MaxClientSends + MaxBeats) :
          (Len(hist.delivered) >= k)
             ~> (Len(hist.applied) >= k \/ bgState # "Running")
    /\ (spawned /\ pc = "idle" /\ queue # <<>>)
             ~> (pc # "idle" \/ bgState # "Running")

\* C13 (as claimed): when a turn ends not ready and the task is left
\* unscheduled, no input has work ready: the shutdown signal is not set, the
\* Pulse holds no Send that was never polled nor one whose sender has been
\* released, and the command queue is empty.  (The transport has just
\* answered not ready.)
C13_SuspendsOnlyWhenIdle ==
    [][(pc = "transport" /\ pc' = "idle" /\ ~notified') =>
          /\ shutdown' # "sent"
          /\ task' # "unsent"
          /\ ~(task' = "sent" /\ ~isParked'[PulseChan])
          /\ queue' = <<>>]_vars

\* C14: a poll of the Pulse whose pending Send fails because the receiver is
\* gone empties the slot, puts nothing on the queue and goes on to the
\* interval in the same poll: a tick that is due starts a new attempt, a
\* tick that is not registers the Pulse with the timer, and the poll reports
\* not ready.  The poll fails only if the timer itself has been dropped, and
\* then with TimerDropped.
C14_SendFailureSwallowed ==
    [][(pc = "pulse" /\ pc' # "pulse" /\ task = "unsent" /\ dropped) =>
          /\ task' # "sent"
          /\ queue' = queue /\ hist.enqueued' = hist.enqueued
          /\ bgState' # "Running" =>
                timer = "dropped" /\ bgError' = "TimerDropped"
          /\ timer = "ok" => pc' = "commands" /\ bgState' = "Running"
          /\ (timer = "ok" /\ ~notified' /\ now >= deadline) =>
                /\ task' = "unsent"
                /\ hist.attempts' = hist.attempts + 1
                /\ deadline' = deadline + Period
          /\ (timer = "ok" /\ ~notified' /\ now < deadline) =>
                /\ task' = "none" /\ timerReg'
                /\ hist.attempts' = hist.attempts]_vars

\* The first attempt failed on the dropped receiver and the second tick has
\* started another one, the Pulse still running.
C14_Witness ==
    /\ dropped /\ bgState = "Running" /\ handle = FALSE
    /\ hist.attempts = 2 /\ hist.enqueued = 0 /\ task = "unsent"

\* C15 (as claimed): the poll of the Pulse that sees a tick stores the
\* attempt, reports not ready and puts nothing on the queue; a Heartbeat
\* reaches the queue only in a poll of the Pulse that finds the stored
\* attempt, and after that poll the slot is empty.
C15_TickStoresLaterPollSends ==
    [][/\ hist.attempts' # hist.attempts =>
            /\ task' = "unsent" /\ pc' = "commands"
            /\ queue' = queue
       /\ hist.enqueued' # hist.enqueued =>
            /\ pc = "pulse" /\ task = "unsent"
            /\ task' = "none"]_vars

\* C15 (amended): the poll that sees a tick stores the new attempt and
\* reports not ready, and the new Heartbeat is not on the queue after it (the
\* same poll may have queued the Heartbeat of the previous attempt).  A
\* Heartbeat reaches the queue only in a later poll of the Pulse, which
\* finds the stored attempt; after that poll the slot is empty, unless the
\* queue was full (the Send stays pending) or the next tick was already due
\* (the slot holds the next attempt).
C15_TickStoresLaterPollSendsUnlessFull ==
    /\ [](task = "unsent" =>
            /\ item.kind = "Heartbeat" /\ item.id = <<PulseChan, hist.attempts>>
            /\ \A i \in 1..Len(hist.delivered) : hist.delivered[i] # item.id)
    /\ [][hist.attempts' # hist.attempts =>
            /\ task' = "unsent" /\ pc' = "commands"
            /\ bgState' = "Running"
            /\ \A i \in 1..Len(queue') : queue'[i] # item'
            /\ \/ queue' = queue
               \/ task = "unsent" /\ queue' = Append(queue, item)]_vars
    /\ [][hist.enqueued' # hist.enqueued =>
            /\ pc = "pulse" /\ task = "unsent"
            /\ queue' = Append(queue, item)
            /\ ParkSelf(Len(queue)) => task' = "sent"
            /\ (~ParkSelf(Len(queue)) /\ now >= deadline /\ timer = "ok"
                   /\ ~notified') => task' = "unsent"
            /\ (~ParkSelf(Len(queue)) /\ now < deadline) =>
                  task' = "none"]_vars

\* A later poll has just queued the Heartbeat behind a full queue: the slot
\* still holds the Send.
C15_Witness ==
    /\ pc = "commands" /\ task = "sent" /\ isParked[PulseChan]
    /\ queue # <<>> /\ Last(queue) = item

\* C16: the shutdown signal ends the task only at a shutdown check.  When it
\* arrives after the turn's check the turn goes on as it would have: the
\* command step applies the head of the queue in full (a Heartbeat's frame
\* is queued, a successful Open allocates its channel and queues its
\* method) and goes on to the transport, the transport is polled, and a turn
\* that ends not ready leaves the task notified for the following turn.
C16_ShutdownMidTurn ==
    /\ [](shutdown = "sent" /\ pc \in {"pulse", "commands", "transport"}
            => bgState = "Running" /\ ~sigAtStart)
    /\ [][(bgState = "Running" /\ bgState' = "StoppedClean"
             /\ pc # "transport") =>
              pc = "shutdown" /\ shutdown = "sent"
              /\ turnLog' = <<"shutdown">>]_vars
    /\ [][(shutdown = "sent" /\ pc = "commands" /\ pc' # pc
             /\ queue # <<>>) =>
              /\ hist.applied' = Append(hist.applied, Head(queue).id)
              /\ queue' = Tail(queue)
              /\ lastApply'.id = Head(queue).id
              /\ Head(queue).kind = "Heartbeat" =>
                    /\ conn'.frame_queue = Append(conn.frame_queue, "Heartbeat")
                    /\ pc' = "transport"
              /\ (Head(queue).kind = "Open" /\ lastApply'.result = "Ok") =>
                    /\ conn'.channels = conn.channels + 1
                    /\ conn'.frame_queue =
                          Append(conn.frame_queue, "ChannelOpen")
                    /\ pc' = "transport"]_vars
    /\ [][(shutdown = "sent" /\ pc = "transport" /\ pc' # pc) =>
              \/ pc' = "idle" /\ bgState' = "Running" /\ notified'
              \/ pc' = "done" /\ Last(turnLog') = "transport"]_vars

\* The signal arrived after the shutdown check of a turn that has since
\* applied a Heartbeat and reached its transport step.
C16_Witness ==
    /\ shutdown = "sent" /\ pc = "transport" /\ bgState = "Running"
    /\ Last(turnLog) = "apply" /\ lastApply.kind = "Heartbeat"

\* C17: Open::execute on a connection with no channel id left fails with
\* ChannelLimitReached, issues no channel-open and leaves the connection as
\* it was; with an id, it issues channel-open, and fails with ProtocolError
\* when that fails; the request id is set exactly when execute succeeded,
\* and has_finished of an Open without a request id is false.
C17_OpenExecute ==
    /\ [](lastApply.kind = "Open" =>
            /\ lastApply.result \in
                  {"Ok", "ChannelLimitReached", "ProtocolError"}
            /\ lastApply.result = "ChannelLimitReached" => ~lastApply.opened
            /\ lastApply.result = "ProtocolError" => lastApply.opened
            /\ lastApply.request_id # 0 <=> lastApply.result = "Ok"
            /\ lastApply.request_id = 0 =>
                  \A replied \in BOOLEAN :
                     ~HasFinished("Open", lastApply.request_id, replied))
    /\ [][(pc = "commands" /\ pc' # pc /\ queue # <<>>
             /\ Head(queue).kind = "Open") =>
              /\ lastApply'.kind = "Open"
              /\ conn.channels >= ChannelMax =>
                    /\ lastApply'.result = "ChannelLimitReached"
                    /\ conn' = conn
              /\ conn.channels < ChannelMax =>
                    /\ lastApply'.opened
                    /\ lastApply'.result \in {"Ok", "ProtocolError"}
                    /\ lastApply'.result = "Ok" =>
                          /\ lastApply'.request_id = conn'.requests
                          /\ conn'.requests = conn.requests + 1
                    /\ lastApply'.result = "ProtocolError" =>
                          conn'.requests = conn.requests]_vars

\* The second Open found the only channel id taken by the first.
C17_Witness ==
    /\ lastApply.kind = "Open" /\ lastApply.result = "ChannelLimitReached"
    /\ conn.channels = ChannelMax /\ conn.requests = 1

\* C18: Heartbeat::execute succeeds whatever the connection holds, appends
\* one Heartbeat frame behind the frames already queued, changes neither the
\* channels allocated nor the requests pending, and the task goes on to its
\* transport step; has_finished of a Heartbeat is true.
C18_HeartbeatExecute ==
    /\ [][(pc = "commands" /\ pc' # pc /\ queue # <<>>
             /\ Head(queue).kind = "Heartbeat") =>
              /\ lastApply'.kind = "Heartbeat" /\ lastApply'.result = "Ok"
              /\ conn'.frame_queue = Append(conn.frame_queue, "Heartbeat")
              /\ conn'.channels = conn.channels
              /\ conn'.requests = conn.requests
              /\ bgState' = "Running" /\ pc' = "transport"]_vars
    /\ [](lastApply.kind = "Heartbeat" =>
            \A replied \in BOOLEAN :
               HasFinished(lastApply.kind, lastApply.request_id, replied))

\* A Heartbeat has been applied to a connection that had a channel open and
\* its channel-open frame queued.
C18_Witness ==
    /\ lastApply.kind = "Heartbeat" /\ conn.channels = 1
    /\ Len(conn.frame_queue) = 2 /\ conn.frame_queue[1] = "ChannelOpen"
    /\ conn.frame_queue[2] = "Heartbeat"

\* C19: the task never ends with HandleDropped.  The shutdown sender leaves
\* the handle only in the destructor, which sends before it releases it, so
\* the oneshot is never cancelled and the shutdown check answers not ready
\* or ready; while the handle is still inside the task, or held, the check
\* answers not ready.
C19_NeverHandleDropped ==
    /\ shutdown \in {"empty", "sent"}
    /\ ShutdownPoll \in {"NotReady", "Ready"}
    /\ bgError # "HandleDropped"
    /\ inner <=> hstat.sends = 0
    /\ inner => shutdown = "empty"
    /\ (handle \/ held > 0) => inner /\ ShutdownPoll = "NotReady"

\* The handle was never taken out; the task has applied a command and has
\* passed the shutdown check of a later turn.
C19_Witness ==
    /\ handle /\ hstat.last = "none" /\ bgState = "Running"
    /\ pc = "pulse" /\ hist.applied # <<>>

\* C20: while the task is alive at least two senders of its queue are, its
\* own and the Pulse's, so the queue is never closed and the command step
\* never takes its closed-queue branch.
C20_QueueNeverClosed ==
    /\ ~dropped => NumSenders >= 2 /\ ~QueueClosed
    /\ ~(bgState = "Panicked" /\ bgError = "Unreachable")

\* Every Client and Channel has been dropped and the task has since polled
\* its empty queue and gone on.
C20_Witness ==
    /\ \A c \in Clients : chanSend[c] = "dropped"
    /\ pc = "transport" /\ Last(turnLog) = "commands"
    /\ queue = <<>> /\ task = "none" /\ bgState = "Running"
====
